---- MODULE Spec2Model ----
(***************************************************************************)
(* Bundle submission and result aggregation of src/executor/jito.ts:       *)
(* bundle (the Batcher), bull_dozer (the Bundle Submitter), build_bundle   *)
(* and onBundleResult (the Result-Wait).  Every await of the source is a   *)
(* suspension point: an action runs one synchronous segment of the code,   *)
(* from one suspension point to the next.  The relay, the chain connection *)
(* and the clock are the environment: their answers are drawn with \E.     *)
(***************************************************************************)
EXTENDS Integers, Sequences, FiniteSets, TLC

(* ---------------------------------------------------------------- bounds *)
\* longest input transaction list
MaxTxs == 7
\* result notifications and stream errors delivered in one run, over all waits
MaxEvents == 3
\* largest tip-account set the relay returns
MaxAccounts == 2
\* relay notifications and stream errors in one run of the liveness specification
MaxLiveEvents == 2

(* ------------------------------------------------------ program constants *)
\* jito.ts:19,23,24: the group size of the Batcher
GroupSize == 3
\* jito.ts:46
bundleTransactionLimit == 4

MaxGroups == (MaxTxs + GroupSize - 1) \div GroupSize
Groups == 1..MaxGroups

VARIABLES
  txs,         \* the caller's transaction list
  entry,       \* the exported function the caller invoked: "bundle" or "bull_dozer"
  JITO_KEY,    \* the configured relay signing key: "" (not set), "valid", "malformed"
  bundlePc,    \* position of bundle(): "idle", "loop", "await", "done"
  txNum,       \* bundle: const txNum
  successNum,  \* bundle: let successNum
  i,           \* bundle: the loop index
  bundleRet,   \* what bundle() returned: "none", "true", "false", "throw"
  grp,         \* grp[g]: the list bull_dozer was called with for group g (newTxs)
  pc,          \* pc[g]: position of bull_dozer/build_bundle for group g
  result,      \* result[g]: what bull_dozer returned: "none", "true", "false", "throw"
  tipAccount,  \* tipAccount[g]: build_bundle's chosen tip account (0: none yet)
  bund,        \* bund[g]: the transactions of build_bundle's Bundle object
  wait,        \* wait[g]: closure state of onBundleResult and its promise
  calls,       \* calls[g]: the relay/chain/timer calls made for group g, in order (history)
  failure,     \* failure[g]: the step of group g that failed (history)
  attempts,    \* the groups bull_dozer was invoked for, in invocation order (history)
  log,         \* log[g]: the events delivered to wait g, in delivery order (history)
  nEv          \* number of relay events delivered so far (bounded by MaxEvents)

vars == <<txs, entry, JITO_KEY, bundlePc, txNum, successNum, i, bundleRet, grp, pc,
          result, tipAccount, bund, wait, calls, failure, attempts, log, nEv>>

(* ------------------------------------------------------------ data values *)
PayloadTx(n) == [kind |-> "payload", id |-> n]
TipTx(account) == [kind |-> "tip", id |-> account]
MkTxs(n) == [k \in 1..n |-> PayloadTx(k)]

Min(a, b) == IF a < b THEN a ELSE b

\* jito.ts:114-117: the closure variables of a fresh onBundleResult call, with the
\* promise it returns (settled/value) and its timer (timer = still pending)
\* resolveCalls counts the calls of resolve (history)
NoWait == [started |-> FALSE, acceptedCount |-> 0, isResolved |-> FALSE,
           settled |-> FALSE, value |-> 0, timer |-> FALSE, resolveCalls |-> 0]

\* the call op was made for group g
Called(g, op) == \E k \in 1..Len(calls[g]) : calls[g][k] = op

(* --------------------------------------------------------- pure functions *)
\* variant of CeilDiv: Math.floor(txs.length / 3) + 1
CeilDiv_FloorPlusOne(n, d) == n \div d + 1

\* jito.ts:19: Math.ceil(txs.length / 3)
CeilDiv(n, d) == (n + d - 1) \div d

\* jito.ts:25: Array.prototype.slice(start, end) for 0 <= start <= end
Slice(s, start, end) == SubSeq(s, Min(start, Len(s)) + 1, Min(end, Len(s)))

(* ------------------------------------------- the Bundle class as it is used *)
\* jito.ts:90: new Bundle([], bundleTransactionLimit)
NewBundle == <<>>

\* jito.ts:93: bund.addTransactions(...txs); over the limit nothing is added and
\* an Error value is returned, which line 93 drops
AddTransactions(b, ts) ==
  IF Len(b) + Len(ts) > bundleTransactionLimit THEN b ELSE b \o ts

\* variant of AddTipTx: the tip transaction is put in front (unshift for push)
AddTipTx_TipFirst(b, tip) ==
  IF Len(b) + 1 > bundleTransactionLimit
  THEN [isError |-> TRUE, transactions |-> b]
  ELSE [isError |-> FALSE, transactions |-> <<tip>> \o b]

\* jito.ts:95: bund.addTipTx(...); over the limit an Error value is returned,
\* else the tip transaction is pushed after the transactions already there
AddTipTx(b, tip) ==
  IF Len(b) + 1 > bundleTransactionLimit
  THEN [isError |-> TRUE, transactions |-> b]
  ELSE [isError |-> FALSE, transactions |-> Append(b, tip)]

\* variant of isError: the error value is never recognised
isError_Never(m) == FALSE

\* jito.ts:97: isError(maybeBundle)
isError(m) == m.isError

\* jito.ts:87: Math.min(Math.floor(Math.random() * n), n - 1), with
\* k = Math.floor(Math.random() * n)
RandomIndex(k, n) == Min(k, n - 1)

(* ------------------------------------------------------ exception handling *)
\* jito.ts:102-105: build_bundle's catch logs and rethrows
BuildBundleCatch(e) == e

\* variant of BullDozerCatch: the catch rethrows as build_bundle's does
BullDozerCatch_Rethrow(e) == e

\* jito.ts:62-65: bull_dozer's catch logs and returns false
BullDozerCatch(e) == "false"

\* jito.ts:32-35: bundle's catch logs and returns false
BundleCatch(e) == "false"

(* -------------------------------------------- onBundleResult: the callbacks *)
\* variant of ResolvePromise: a later resolve replaces the promise's value
ResolvePromise_Overwrite(w, v) ==
  [w EXCEPT !.settled = TRUE, !.value = v, !.resolveCalls = @ + 1]

\* resolve(v) of the promise of jito.ts:117: only the first call settles it
ResolvePromise(w, v) ==
  IF w.settled THEN [w EXCEPT !.resolveCalls = @ + 1]
  ELSE [w EXCEPT !.settled = TRUE, !.value = v, !.resolveCalls = @ + 1]

\* variant of TimerCallback: the flag is set but resolve is not called
TimerCallback_NoResolve(w) == [w EXCEPT !.isResolved = TRUE, !.timer = FALSE]

\* jito.ts:119-125: the setTimeout callback
TimerCallback(w) ==
  IF ~w.isResolved
  THEN [ResolvePromise(w, w.acceptedCount) EXCEPT !.isResolved = TRUE, !.timer = FALSE]
  ELSE [w EXCEPT !.timer = FALSE]

\* variant of ResultCallback: the isResolved guard of line 129 is missing
ResultCallback_NoGuard(w, accepted) ==
  IF accepted
  THEN LET w1 == [w EXCEPT !.acceptedCount = @ + 1, !.isResolved = TRUE]
       IN  ResolvePromise(w1, w1.acceptedCount)
  ELSE w

\* variant of ResultCallback: a result without an accepted field ends the wait
ResultCallback_RejectResolves(w, accepted) ==
  IF w.isResolved THEN w
  ELSE IF accepted
       THEN LET w1 == [w EXCEPT !.acceptedCount = @ + 1, !.isResolved = TRUE]
            IN  ResolvePromise(w1, w1.acceptedCount)
       ELSE [ResolvePromise(w, w.acceptedCount) EXCEPT !.isResolved = TRUE]

\* jito.ts:128-137: the result callback; accepted = the result has an accepted field
ResultCallback(w, accepted) ==
  IF w.isResolved THEN w
  ELSE IF accepted
       THEN LET w1 == [w EXCEPT !.acceptedCount = @ + 1, !.isResolved = TRUE]
            IN  ResolvePromise(w1, w1.acceptedCount)
       ELSE w

\* variant of ErrorCallback: the error is logged and nothing is resolved
ErrorCallback_LogOnly(w) == w

\* jito.ts:138-141: the error callback (it does not set isResolved)
ErrorCallback(w) ==
  IF ~w.isResolved THEN ResolvePromise(w, w.acceptedCount) ELSE w

(* ------------------------------------------------------------ bull_dozer *)
\* variant of BullDozerStart: no JITO_KEY test, a client is made without a key
BullDozerStart_NoKeyCheck(key) == IF key = "malformed" THEN "throw" ELSE "proceed"

\* jito.ts:48-52,58-61: "skip" when JITO_KEY is falsy; JSON.parse/fromSecretKey
\* throw on a malformed key; else the searcher client is made and build_bundle called
BullDozerStart(key) ==
  IF key = "" THEN "skip"
  ELSE IF key = "valid" THEN "proceed" ELSE "throw"

\* jito.ts:57: return bundleResult > 0
BullDozerReturn(bundleResult) == IF bundleResult > 0 THEN "true" ELSE "false"

\* jito.ts:44-54,58-65: bull_dozer(ts, keypair) called for group g, run to its first
\* suspension point (search.getTipAccounts()) or to its return
InvokeBullDozer(g, ts) ==
  LET start == BullDozerStart(JITO_KEY) IN
  /\ grp' = [grp EXCEPT ![g] = ts]
  /\ attempts' = Append(attempts, g)
  /\ pc' = [pc EXCEPT ![g] = IF start = "proceed" THEN "getTipAccounts" ELSE "returned"]
  /\ result' = [result EXCEPT ![g] =
                  IF start = "proceed" THEN "none"
                  ELSE IF start = "skip" THEN "false" ELSE BullDozerCatch("throw")]
  /\ calls' = [calls EXCEPT ![g] = IF start = "proceed" THEN Append(@, "getTipAccounts")
                                                        ELSE @]
  /\ failure' = [failure EXCEPT ![g] = IF start = "throw" THEN "JSON.parse" ELSE "none"]

\* a throw inside build_bundle for group g: jito.ts:102-105 rethrows, jito.ts:62-65
\* makes bull_dozer return; the locals of build_bundle are gone
Fail(g, why) ==
  /\ pc' = [pc EXCEPT ![g] = "returned"]
  /\ result' = [result EXCEPT ![g] = BullDozerCatch(BuildBundleCatch("throw"))]
  /\ failure' = [failure EXCEPT ![g] = why]
  /\ tipAccount' = [tipAccount EXCEPT ![g] = 0]
  /\ bund' = [bund EXCEPT ![g] = <<>>]

(* ----------------------------------------------------------------- Init *)
Init ==
  /\ txs \in {MkTxs(n) : n \in 0..MaxTxs}
  /\ entry \in {"bundle", "bull_dozer"}
  /\ JITO_KEY \in {"", "valid", "malformed"}
  /\ bundlePc = "idle"
  /\ txNum = 0
  /\ successNum = 0
  /\ i = 0
  /\ bundleRet = "none"
  /\ grp = [g \in Groups |-> <<>>]
  /\ pc = [g \in Groups |-> "idle"]
  /\ result = [g \in Groups |-> "none"]
  /\ tipAccount = [g \in Groups |-> 0]
  /\ bund = [g \in Groups |-> <<>>]
  /\ wait = [g \in Groups |-> NoWait]
  /\ calls = [g \in Groups |-> <<>>]
  /\ failure = [g \in Groups |-> "none"]
  /\ attempts = <<>>
  /\ log = [g \in Groups |-> <<>>]
  /\ nEv = 0

(* --------------------------------------------------------------- bundle *)
\* variant of LoopCond: the loop ends at the first group that did not succeed
LoopCond_StopOnFailure(k, n, succ) == k < n /\ succ = k

\* jito.ts:22: the loop condition i < txNum (successNum plays no part in it)
LoopCond(k, n, succ) == k < n

\* variant of NextIndex: a group that did not succeed is submitted again
NextIndex_RetryFailed(k, success) == IF success THEN k + 1 ELSE k

\* jito.ts:22: i++ at the end of an iteration, whatever success was
NextIndex(k, success) == k + 1

\* variant of BundleReturn: successNum > 0 for successNum === txNum
BundleReturn_AnySuccess(succ, n) == IF succ > 0 THEN "true" ELSE "false"

\* jito.ts:31: return successNum === txNum
BundleReturn(succ, n) == IF succ = n THEN "true" ELSE "false"

\* variant of SliceBounds: the upper index is one too far
SliceBounds_Overlap(k) == [down |-> k * GroupSize, up |-> (k + 1) * GroupSize + 1]

\* jito.ts:23-24: upperIndex and downIndex of iteration k
SliceBounds(k) == [down |-> k * GroupSize, up |-> (k + 1) * GroupSize]

\* variant of AwaitBullDozer: the await of line 27 is missing
AwaitBullDozer_NoAwait(g) == TRUE

\* jito.ts:27: await bull_dozer(...): bundle goes on once bull_dozer has returned
AwaitBullDozer(g) == pc[g] = "returned"

\* jito.ts:17-20: the caller invokes bundle(txs, keypair)
BundleEnter ==
  /\ entry = "bundle" /\ bundlePc = "idle"
  /\ txNum' = CeilDiv(Len(txs), GroupSize)
  /\ successNum' = 0
  /\ i' = 0
  /\ bundlePc' = "loop"
  /\ UNCHANGED <<txs, entry, JITO_KEY, bundleRet, grp, pc, result, tipAccount, bund,
                 wait, calls, failure, attempts, log, nEv>>

\* jito.ts:22-27,31: the loop test; then either one iteration up to the await of
\* line 27, or the return of line 31
BundleLoop ==
  /\ bundlePc = "loop"
  /\ IF LoopCond(i, txNum, successNum)
     THEN /\ InvokeBullDozer(i + 1, Slice(txs, SliceBounds(i).down, SliceBounds(i).up))
          /\ bundlePc' = "await"
          /\ UNCHANGED bundleRet
     ELSE /\ bundleRet' = BundleReturn(successNum, txNum)
          /\ bundlePc' = "done"
          /\ UNCHANGED <<grp, pc, result, calls, failure, attempts>>
  /\ UNCHANGED <<txs, entry, JITO_KEY, txNum, successNum, i, tipAccount, bund, wait,
                 log, nEv>>

\* jito.ts:27-29,32-35: bundle resumes with bull_dozer's outcome: success is counted
\* and i++ ; a rejection would land in bundle's catch
BundleResume ==
  /\ bundlePc = "await"
  /\ AwaitBullDozer(i + 1)
  /\ IF result[i + 1] = "throw"
     THEN /\ bundleRet' = BundleCatch("throw")
          /\ bundlePc' = "done"
          /\ UNCHANGED <<successNum, i>>
     ELSE /\ successNum' = IF result[i + 1] = "true" THEN successNum + 1 ELSE successNum
          /\ i' = NextIndex(i, result[i + 1] = "true")
          /\ bundlePc' = "loop"
          /\ UNCHANGED bundleRet
  /\ UNCHANGED <<txs, entry, JITO_KEY, txNum, grp, pc, result, tipAccount, bund, wait,
                 calls, failure, attempts, log, nEv>>

\* jito.ts:44: the caller invokes the exported bull_dozer(txs, keypair) itself
BullDozerDirect ==
  /\ entry = "bull_dozer" /\ pc[1] = "idle"
  /\ InvokeBullDozer(1, txs)
  /\ UNCHANGED <<txs, entry, JITO_KEY, bundlePc, txNum, successNum, i, bundleRet,
                 tipAccount, bund, wait, log, nEv>>

(* --------------------------------------------------------- build_bundle *)
\* jito.ts:82-91: search.getTipAccounts() settles: it throws (ok = FALSE) or returns
\* n accounts; k is Math.floor(Math.random() * n)
GetTipAccountsReturn(g) ==
  /\ pc[g] = "getTipAccounts"
  /\ \E ok \in BOOLEAN, n \in 0..MaxAccounts, k \in 0..MaxAccounts :
       /\ ok \/ (n = 0)
       /\ IF n = 0 THEN k = 0 ELSE k < n
       /\ IF ~ok THEN Fail(g, "getTipAccounts") /\ UNCHANGED calls
          ELSE IF n = 0 THEN Fail(g, "noTipAccounts") /\ UNCHANGED calls
          ELSE /\ tipAccount' = [tipAccount EXCEPT ![g] = RandomIndex(k, n) + 1]
               /\ bund' = [bund EXCEPT ![g] = NewBundle]
               /\ pc' = [pc EXCEPT ![g] = "getLatestBlockhash"]
               /\ calls' = [calls EXCEPT ![g] = Append(@, "getLatestBlockhash")]
               /\ UNCHANGED <<result, failure>>
  /\ UNCHANGED <<txs, entry, JITO_KEY, bundlePc, txNum, successNum, i, bundleRet, grp,
                 wait, attempts, log, nEv>>

\* jito.ts:91-101: getLatestBlockhash settles (ok), the bundle is built (signOk: the
\* tip transaction could be built and signed without a throw) and sendBundle called
GetLatestBlockhashReturn(g) ==
  /\ pc[g] = "getLatestBlockhash"
  /\ \E ok \in BOOLEAN, signOk \in BOOLEAN :
       /\ ok \/ signOk
       /\ LET b == AddTransactions(bund[g], grp[g])
              maybeBundle == AddTipTx(b, TipTx(tipAccount[g]))
          IN  IF ~ok THEN Fail(g, "getLatestBlockhash") /\ UNCHANGED calls
              ELSE IF ~signOk THEN Fail(g, "addTipTx throws") /\ UNCHANGED calls
              ELSE IF isError(maybeBundle) THEN Fail(g, "addTipTx error value")
                                               /\ UNCHANGED calls
              ELSE /\ bund' = [bund EXCEPT ![g] = maybeBundle.transactions]
                   /\ pc' = [pc EXCEPT ![g] = "sendBundle"]
                   /\ calls' = [calls EXCEPT ![g] = Append(@, "sendBundle")]
                   /\ UNCHANGED <<result, failure, tipAccount>>
  /\ UNCHANGED <<txs, entry, JITO_KEY, bundlePc, txNum, successNum, i, bundleRet, grp,
                 wait, attempts, log, nEv>>

\* variant of SendOutcome: a rejected sendBundle is swallowed
SendOutcome_Swallow(ok) == "return"

\* jito.ts:101: await search.sendBundle(...): a rejection is thrown at the await
SendOutcome(ok) == IF ok THEN "return" ELSE "throw"

\* jito.ts:101,54-56,113-143: sendBundle settles; on success build_bundle returns and
\* bull_dozer calls onBundleResult, which starts the timer and subscribes
SendBundleReturn(g) ==
  /\ pc[g] = "sendBundle"
  /\ \E ok \in BOOLEAN :
       IF SendOutcome(ok) = "throw" THEN Fail(g, "sendBundle") /\ UNCHANGED <<calls, wait>>
       ELSE /\ wait' = [wait EXCEPT ![g] = [NoWait EXCEPT !.started = TRUE, !.timer = TRUE]]
            /\ calls' = [calls EXCEPT ![g] = @ \o <<"setTimeout", "onBundleResult">>]
            /\ pc' = [pc EXCEPT ![g] = "wait"]
            /\ tipAccount' = [tipAccount EXCEPT ![g] = 0]
            /\ bund' = [bund EXCEPT ![g] = <<>>]
            /\ failure' = [failure EXCEPT ![g] = IF ok THEN @ ELSE "sendBundle"]
            /\ UNCHANGED result
  /\ UNCHANGED <<txs, entry, JITO_KEY, bundlePc, txNum, successNum, i, bundleRet, grp,
                 attempts, log, nEv>>

\* jito.ts:56-57: bull_dozer resumes once the promise of onBundleResult is settled
WaitResume(g) ==
  /\ pc[g] = "wait"
  /\ wait[g].settled
  /\ result' = [result EXCEPT ![g] = BullDozerReturn(wait[g].value)]
  /\ pc' = [pc EXCEPT ![g] = "returned"]
  /\ UNCHANGED <<txs, entry, JITO_KEY, bundlePc, txNum, successNum, i, bundleRet, grp,
                 tipAccount, bund, wait, calls, failure, attempts, log, nEv>>

(* -------------------------------------------- the events of a Result-Wait *)
\* variant of WaitScope: acceptedCount and isResolved are module-level variables
WaitScope_Shared(g) == 1

\* jito.ts:114-115: acceptedCount and isResolved are declared inside onBundleResult,
\* so the timer and the callbacks of wait g act on the closure of that call only
WaitScope(g) == g

Event(kind, b) == [kind |-> kind, b |-> b]

\* jito.ts:119-125: the 30000 ms timer of wait g fires (once; timers of one delay
\* fire in the order they were set)
Timeout(g) ==
  /\ wait[g].timer
  /\ \A h \in Groups : h < g => ~wait[h].timer
  /\ wait' = [wait EXCEPT ![WaitScope(g)] = TimerCallback(wait[WaitScope(g)])]
  /\ log' = [log EXCEPT ![g] = Append(@, Event("timeout", 0))]
  /\ UNCHANGED <<txs, entry, JITO_KEY, bundlePc, txNum, successNum, i, bundleRet, grp,
                 pc, result, tipAccount, bund, calls, failure, attempts, nEv>>

\* jito.ts:127-137: the subscription of wait g delivers a result about the bundle
\* sent for group b; accepted = the result carries an accepted field.  The log keeps
\* the bundle of an acceptance only (the callback reads nothing else of a result).
\* The relay reports on bundles it was handed: sendBundle for b was called and has
\* not thrown
ResultNotification(g, b, accepted) ==
  /\ wait[g].started
  /\ Called(b, "sendBundle") /\ failure[b] # "sendBundle"
  /\ nEv < MaxEvents
  /\ wait' = [wait EXCEPT ![WaitScope(g)] = ResultCallback(wait[WaitScope(g)], accepted)]
  /\ log' = [log EXCEPT ![g] = Append(@, IF accepted THEN Event("accept", b)
                                                     ELSE Event("reject", 0))]
  /\ nEv' = nEv + 1
  /\ UNCHANGED <<txs, entry, JITO_KEY, bundlePc, txNum, successNum, i, bundleRet, grp,
                 pc, result, tipAccount, bund, calls, failure, attempts>>

\* jito.ts:138-141: the subscription of wait g reports an error
StreamError(g) ==
  /\ wait[g].started
  /\ nEv < MaxEvents
  /\ wait' = [wait EXCEPT ![WaitScope(g)] = ErrorCallback(wait[WaitScope(g)])]
  /\ log' = [log EXCEPT ![g] = Append(@, Event("error", 0))]
  /\ nEv' = nEv + 1
  /\ UNCHANGED <<txs, entry, JITO_KEY, bundlePc, txNum, successNum, i, bundleRet, grp,
                 pc, result, tipAccount, bund, calls, failure, attempts>>

Next ==
  \/ BundleEnter
  \/ BundleLoop
  \/ BundleResume
  \/ BullDozerDirect
  \/ \E g \in Groups : GetTipAccountsReturn(g)
  \/ \E g \in Groups : GetLatestBlockhashReturn(g)
  \/ \E g \in Groups : SendBundleReturn(g)
  \/ \E g \in Groups : WaitResume(g)
  \/ \E g \in Groups : Timeout(g)
  \/ \E g \in Groups, b \in Groups, accepted \in BOOLEAN : ResultNotification(g, b, accepted)
  \/ \E g \in Groups : StreamError(g)

Spec == Init /\ [][Next]_vars

\* What the event loop and the claim's proviso guarantee: a continuation whose
\* promise is settled runs (BundleLoop, BundleResume, WaitResume), a timer that was
\* set fires (Timeout), and each awaited relay or chain call returns or throws
\* (the three ...Return steps).  Nothing is assumed of the relay's notifications.
Fairness ==
  /\ WF_vars(BundleLoop)
  /\ WF_vars(BundleResume)
  /\ \A g \in Groups :
       /\ WF_vars(GetTipAccountsReturn(g))
       /\ WF_vars(GetLatestBlockhashReturn(g))
       /\ WF_vars(SendBundleReturn(g))
       /\ WF_vars(WaitResume(g))
       /\ WF_vars(Timeout(g))

\* Init with the relay's budget of notifications cut to MaxLiveEvents
FairInit ==
  /\ txs \in {MkTxs(n) : n \in 0..MaxTxs}
  /\ entry \in {"bundle", "bull_dozer"}
  /\ JITO_KEY \in {"", "valid", "malformed"}
  /\ bundlePc = "idle"
  /\ txNum = 0
  /\ successNum = 0
  /\ i = 0
  /\ bundleRet = "none"
  /\ grp = [g \in Groups |-> <<>>]
  /\ pc = [g \in Groups |-> "idle"]
  /\ result = [g \in Groups |-> "none"]
  /\ tipAccount = [g \in Groups |-> 0]
  /\ bund = [g \in Groups |-> <<>>]
  /\ wait = [g \in Groups |-> NoWait]
  /\ calls = [g \in Groups |-> <<>>]
  /\ failure = [g \in Groups |-> "none"]
  /\ attempts = <<>>
  /\ log = [g \in Groups |-> <<>>]
  /\ nEv = IF MaxEvents > MaxLiveEvents THEN MaxEvents - MaxLiveEvents ELSE 0

FairSpec == FairInit /\ [][Next]_vars /\ Fairness

(* ------------------------------------------------ vocabulary of the claims *)
\* the number of groups of n transactions, stated without the code's arithmetic
NumGroups(n) == CHOOSE k \in 0..n : GroupSize * (k - 1) < n /\ n <= GroupSize * k

RECURSIVE Concat(_, _)
\* the groups 1..k laid end to end
Concat(f, k) == IF k = 0 THEN <<>> ELSE Concat(f, k - 1) \o f[k]

\* the events that can resolve a wait
Triggers == {"accept", "error", "timeout"}
TriggerIdx(l) == {k \in 1..Len(l) : l[k].kind \in Triggers}
FirstTriggerIdx(l) == CHOOSE k \in TriggerIdx(l) : \A m \in TriggerIdx(l) : k <= m
\* the kind of the first trigger delivered to a wait, "none" before any
FirstTrigger(l) == IF TriggerIdx(l) = {} THEN "none" ELSE l[FirstTriggerIdx(l)].kind
\* an event of that kind was delivered after the first trigger
LateEvent(l, kind) ==
  TriggerIdx(l) # {} /\ \E k \in 1..Len(l) : k > FirstTriggerIdx(l) /\ l[k].kind = kind
Delivered(l, kind) == \E k \in 1..Len(l) : l[k].kind = kind

\* the phases in which a group is being submitted or awaited
Active == {"getTipAccounts", "getLatestBlockhash", "sendBundle", "wait"}
Done == entry = "bundle" /\ bundlePc = "done"

(* ------------------------------------------------------------------ claims *)
\* C1: once an accept notification was the first trigger of a wait, the wait is
\* resolved with value 1, accepted-count 1 and the resolved flag set, and stays so
\* whatever is delivered afterwards (duplicate accept, late error, the timer).
C1_AcceptIsFinal ==
  \A g \in Groups :
    FirstTrigger(log[g]) = "accept" =>
      /\ wait[g].settled /\ wait[g].value = 1
      /\ wait[g].acceptedCount = 1
      /\ wait[g].isResolved

C1_Witness ==
  \E g \in Groups :
    /\ FirstTrigger(log[g]) = "accept"
    /\ LateEvent(log[g], "accept") /\ LateEvent(log[g], "error")
    /\ LateEvent(log[g], "timeout")
    /\ wait[g].value = 1

\* C2: bundle returns true exactly when every one of the ceil(N/3) groups'
\* submissions returned true, that is when successNum equals the number of groups;
\* successNum counts the groups that returned true.
C2_TrueIffAllGroups ==
  /\ entry = "bundle" /\ bundlePc \in {"loop", "done"} =>
       successNum = Cardinality({g \in 1..i : result[g] = "true"})
  /\ Done =>
       /\ bundleRet \in {"true", "false"}
       /\ bundleRet = "true" <=> successNum = NumGroups(Len(txs))
       /\ bundleRet = "true" <=> \A g \in 1..NumGroups(Len(txs)) : result[g] = "true"

C2_Witness ==
  /\ Done /\ Len(txs) = 7 /\ bundleRet = "true"
  /\ \A g \in 1..3 : result[g] = "true"

\* C3: the groups formed are ceil(N/3) contiguous slices of length 1..3, only the
\* last shorter than 3, and laid end to end they are the input list.
C3_Partition ==
  entry = "bundle" =>
    LET k == Len(attempts)
        n == NumGroups(Len(txs))
    IN  /\ k <= n
        /\ \A g \in 1..k : Len(grp[g]) \in 1..GroupSize
        /\ \A g \in 1..k : g < n => Len(grp[g]) = GroupSize
        /\ Concat(grp, k) = SubSeq(txs, 1, Len(Concat(grp, k)))
        /\ Done => k = n /\ Concat(grp, n) = txs

C3_Witness ==
  /\ Done /\ Len(txs) = 7
  /\ Len(grp[1]) = 3 /\ Len(grp[2]) = 3 /\ Len(grp[3]) = 1

\* C4: every group is attempted, in index order, whatever the earlier outcomes; a
\* run with a failed group returns false.
C4_AllAttemptedInOrder ==
  entry = "bundle" =>
    /\ attempts = [k \in 1..Len(attempts) |-> k]
    /\ Done => Len(attempts) = NumGroups(Len(txs))
    /\ Done /\ (\E g \in 1..Len(attempts) : result[g] # "true") => bundleRet = "false"

C4_Witness ==
  /\ Done /\ Len(txs) = 7 /\ attempts = <<1, 2, 3>>
  /\ result[1] = "true" /\ result[2] = "true"
  /\ log[3] = <<Event("timeout", 0)>> /\ result[3] = "false"
  /\ bundleRet = "false"

\* C5: at most one group is in its submit-or-wait phase, and a group is started
\* (any relay call made for it) only after every earlier group's submission has
\* returned, its wait resolved if it had one.
C5_Sequential ==
  /\ Cardinality({g \in Groups : pc[g] \in Active}) <= 1
  /\ \A g \in Groups : \A h \in Groups :
       (h < g /\ (pc[g] # "idle" \/ calls[g] # <<>>)) =>
         /\ pc[h] = "returned"
         /\ wait[h].started => wait[h].settled

C5_Witness ==
  /\ pc[1] = "returned" /\ wait[1].timer
  /\ pc[2] = "returned" /\ failure[2] # "none"
  /\ pc[3] = "wait"

\* C6: with no JITO_KEY configured bull_dozer returns false and makes no relay or
\* chain call, starts no subscription and no timer.
C6_NoKeyNoCall ==
  JITO_KEY = "" =>
    \A g \in Groups :
      /\ calls[g] = <<>>
      /\ ~wait[g].started /\ ~wait[g].timer
      /\ pc[g] \in {"idle", "returned"}
      /\ pc[g] = "returned" => result[g] = "false"

C6_Witness ==
  JITO_KEY = "" /\ entry = "bull_dozer" /\ pc[1] = "returned" /\ result[1] = "false"

\* C7: the bundle handed to sendBundle for a Batcher group is the group's
\* transactions in order followed by exactly one tip transaction: group size + 1
\* transactions, at most 4, and 4 for a group of 3.
C7_BundleShape ==
  \A g \in Groups :
    (entry = "bundle" /\ pc[g] = "sendBundle") =>
      /\ Len(bund[g]) = Len(grp[g]) + 1
      /\ Len(bund[g]) <= 4
      /\ Len(grp[g]) = 3 => Len(bund[g]) = 4
      /\ SubSeq(bund[g], 1, Len(grp[g])) = grp[g]
      /\ bund[g][Len(bund[g])].kind = "tip"
      /\ Cardinality({k \in 1..Len(bund[g]) : bund[g][k].kind = "tip"}) = 1

C7_Witness ==
  \E g \in Groups :
    /\ entry = "bundle" /\ pc[g] = "sendBundle"
    /\ Len(grp[g]) = 3 /\ Len(bund[g]) = 4 /\ bund[g][4].kind = "tip"

\* C8: an error delivered while the wait is unresolved and before any accept
\* resolves the wait with count 0 at that event, timer fired or not.
C8_ErrorResolvesWithZero ==
  \A g \in Groups :
    FirstTrigger(log[g]) = "error" => wait[g].settled /\ wait[g].value = 0

C8_Witness ==
  \E g \in Groups :
    /\ log[g] = <<Event("error", 0)>>
    /\ wait[g].timer
    /\ wait[g].settled /\ wait[g].value = 0
    /\ result[g] = "false"

\* C9: a wait that was delivered neither an accept nor an error is unresolved
\* exactly until its timer fires, and is then resolved with count 0.
C9_TimeoutResolvesWithZero ==
  \A g \in Groups :
    (wait[g].started /\ ~Delivered(log[g], "accept") /\ ~Delivered(log[g], "error")) =>
      /\ wait[g].settled <=> Delivered(log[g], "timeout")
      /\ wait[g].settled <=> ~wait[g].timer
      /\ wait[g].settled => wait[g].value = 0
      /\ ~wait[g].settled => pc[g] = "wait"

C9_Witness ==
  \E g \in Groups :
    /\ log[g] = <<Event("timeout", 0)>>
    /\ wait[g].settled /\ wait[g].value = 0
    /\ result[g] = "false"

\* C10: no exception leaves bull_dozer or bundle: a failure of the key parse, the
\* tip-account fetch, the blockhash fetch, the bundle construction or sendBundle
\* makes that group's submission return false, and bundle still attempts every group.
C10_NoExceptionEscapes ==
  /\ bundleRet # "throw"
  /\ \A g \in Groups :
       /\ result[g] # "throw"
       /\ failure[g] # "none" =>
            pc[g] = "returned" /\ result[g] = "false" /\ ~wait[g].started
  /\ Done => \A g \in 1..NumGroups(Len(txs)) : pc[g] = "returned"

C10_Witness ==
  /\ Done /\ Len(txs) = 7 /\ bundleRet = "false"
  /\ failure[1] = "getTipAccounts" /\ failure[2] = "sendBundle"
  /\ pc[3] = "returned" /\ failure[3] = "none"

\* C11: the first of accept, error and timeout to fire sets the resolved flag, and
\* every later trigger is a no-op: resolve is called once, accepted-count keeps the
\* value it had at the first trigger (1 after an accept, else 0).
C11_FirstTriggerWins ==
  \A g \in Groups :
    FirstTrigger(log[g]) # "none" =>
      /\ wait[g].isResolved
      /\ wait[g].resolveCalls = 1
      /\ wait[g].acceptedCount = IF FirstTrigger(log[g]) = "accept" THEN 1 ELSE 0

\* C12: a group's submission returns true exactly when an accept was the first
\* trigger of its wait; after an error or the timer resolved the wait the group is
\* reported false, an accept delivered afterwards or not.
C12_TrueIffAcceptFirst ==
  \A g \in Groups :
    /\ pc[g] = "returned" =>
         (result[g] = "true" <=> FirstTrigger(log[g]) = "accept")
    /\ (pc[g] = "wait" /\ wait[g].settled) =>
         (wait[g].value > 0 <=> FirstTrigger(log[g]) = "accept")

C12_Witness ==
  \E g \in Groups :
    /\ pc[g] = "returned" /\ result[g] = "false"
    /\ FirstTrigger(log[g]) = "error"
    /\ LateEvent(log[g], "accept")
    /\ wait[g].acceptedCount = 1

\* the number of times op was called for group g
CallCount(g, op) == Cardinality({k \in 1..Len(calls[g]) : calls[g][k] = op})

\* C13: sendBundle is called for a group only after a non-empty tip-account set was
\* fetched and the tip transaction was built without an error value (the bundle
\* handed over ends with the tip to the chosen account); with an empty set or an
\* error value no bundle is sent, no subscription or timer started, the group false.
C13_SendNeedsTip ==
  \A g \in Groups :
    /\ Called(g, "sendBundle") =>
         /\ Called(g, "getTipAccounts") /\ Called(g, "getLatestBlockhash")
         /\ failure[g] \notin {"getTipAccounts", "noTipAccounts", "getLatestBlockhash",
                               "addTipTx throws", "addTipTx error value"}
    /\ pc[g] = "sendBundle" =>
         /\ tipAccount[g] \in 1..MaxAccounts
         /\ bund[g] # <<>>
         /\ bund[g][Len(bund[g])] = TipTx(tipAccount[g])
    /\ failure[g] \in {"noTipAccounts", "addTipTx error value"} =>
         /\ ~Called(g, "sendBundle")
         /\ ~Called(g, "onBundleResult") /\ ~Called(g, "setTimeout")
         /\ ~wait[g].started /\ ~wait[g].timer
         /\ pc[g] = "returned" /\ result[g] = "false"

C13_Witness ==
  /\ entry = "bull_dozer" /\ Len(txs) = 4
  /\ failure[1] = "addTipTx error value"
  /\ calls[1] = <<"getTipAccounts", "getLatestBlockhash">>
  /\ result[1] = "false"

\* C14: nothing is retried: bull_dozer is invoked at most once per group and
\* sendBundle called at most once per group, so at most ceil(N/3) times in all; a
\* group that failed or timed out is not submitted again.
C14_NoRetry ==
  entry = "bundle" =>
    /\ \A g \in Groups : CallCount(g, "sendBundle") <= 1
    /\ \A g \in Groups : CallCount(g, "getTipAccounts") <= 1
    /\ \A j, k \in 1..Len(attempts) : attempts[j] = attempts[k] => j = k
    /\ Cardinality({g \in Groups : Called(g, "sendBundle")}) <= NumGroups(Len(txs))
    /\ \A g \in Groups : Called(g, "sendBundle") => g <= NumGroups(Len(txs))

C14_Witness ==
  /\ Done /\ Len(txs) = 7
  /\ failure[1] = "sendBundle"
  /\ log[2] = <<Event("timeout", 0)>> /\ result[2] = "false"
  /\ \A g \in 1..3 : CallCount(g, "sendBundle") = 1

\* C15: an event delivered to wait g (its timer, a result or an error on its
\* subscription) changes no other wait, no group's outcome or position and not the
\* Batcher's counter or result; the flag and counter of a wait change only in a
\* step that delivers an event to that wait.
C15_Isolation ==
  [][\A g \in Groups :
       /\ log'[g] # log[g] =>
            /\ \A h \in Groups \ {g} : wait'[h] = wait[h]
            /\ result' = result /\ pc' = pc
            /\ successNum' = successNum /\ bundleRet' = bundleRet
       /\ (wait'[g].isResolved # wait[g].isResolved
           \/ wait'[g].acceptedCount # wait[g].acceptedCount) => log'[g] # log[g]
    ]_vars

\* an acceptance about bundle 2 was delivered on group 1's stale subscription, after
\* group 1 returned, while group 2 is awaited and still unresolved
C15_Witness ==
  /\ pc[1] = "returned" /\ pc[2] = "wait"
  /\ \E k \in 1..Len(log[1]) : log[1][k] = Event("accept", 2)
  /\ ~wait[1].timer
  /\ log[2] = <<>>
  /\ ~wait[2].settled /\ ~wait[2].isResolved /\ wait[2].acceptedCount = 0

\* C16: every started wait is eventually resolved, and every bundle() invocation
\* eventually returns a boolean, given that a set timer fires and each awaited
\* relay or chain call returns or throws.
C16_Termination ==
  /\ \A g \in Groups : wait[g].started ~> wait[g].settled
  /\ (entry = "bundle" /\ bundlePc # "idle")
       ~> (bundlePc = "done" /\ bundleRet \in {"true", "false"})

\* bundle() has returned after a group whose relay never signalled anything
C16_Witness ==
  /\ Done /\ Len(txs) = 7 /\ bundleRet = "false"
  /\ \A g \in 1..3 : wait[g].started /\ wait[g].settled
  /\ log[1] = <<Event("timeout", 0)>>

\* C17: for an empty list bundle forms no group, calls bull_dozer, the relay and
\* the chain not at all, and returns true.
C17_EmptyList ==
  (entry = "bundle" /\ Len(txs) = 0) =>
    /\ attempts = <<>>
    /\ \A g \in Groups : pc[g] = "idle" /\ calls[g] = <<>> /\ ~wait[g].started
    /\ bundlePc \in {"idle", "loop", "done"}
    /\ bundlePc # "idle" => txNum = 0
    /\ bundlePc = "done" => bundleRet = "true"

C17_Witness ==
  Done /\ Len(txs) = 0 /\ bundleRet = "true" /\ JITO_KEY = "valid"

\* C18: a wait is resolved with count 1, and its group reported true, only by an
\* acceptance about the bundle that was sent for that same group.
C18_AcceptanceIsOwn ==
  \A g \in Groups :
    (wait[g].settled /\ wait[g].value = 1) =>
      /\ FirstTrigger(log[g]) = "accept"
      /\ log[g][FirstTriggerIdx(log[g])].b = g

\* C19: a result without an accepted field changes no wait, no outcome and no
\* position; a wait is resolved, or its flag set, only once an accept, an error or
\* the timer was delivered to it.
C19_RejectChangesNothing ==
  /\ [](\A g \in Groups :
          (wait[g].settled \/ wait[g].isResolved \/ wait[g].acceptedCount # 0) =>
            FirstTrigger(log[g]) # "none")
  /\ [][\A g \in Groups :
          log'[g] = Append(log[g], Event("reject", 0)) =>
            /\ wait' = wait
            /\ result' = result /\ pc' = pc
            /\ successNum' = successNum /\ bundleRet' = bundleRet
       ]_vars

C19_Witness ==
  \E g \in Groups :
    /\ log[g] = <<Event("reject", 0), Event("accept", g)>>
    /\ wait[g].settled /\ wait[g].value = 1
    /\ result[g] = "true"

\* C20: the timer and the subscription of a group are started only after that
\* group's sendBundle returned without a throw, as the last calls of the
\* submission; while the group is still fetching, building or sending, no timer
\* runs and nothing is delivered; no wait exists for a bundle that was not sent.
C20_WaitAfterSend ==
  \A g \in Groups :
    /\ (wait[g].started \/ wait[g].timer \/ log[g] # <<>>
        \/ Called(g, "setTimeout") \/ Called(g, "onBundleResult")) =>
         /\ calls[g] = <<"getTipAccounts", "getLatestBlockhash", "sendBundle",
                         "setTimeout", "onBundleResult">>
         /\ failure[g] = "none"
         /\ pc[g] \in {"wait", "returned"}
    /\ pc[g] \in {"idle", "getTipAccounts", "getLatestBlockhash", "sendBundle"} =>
         ~wait[g].started /\ ~wait[g].timer /\ log[g] = <<>>
    /\ failure[g] # "none" => ~wait[g].started /\ ~wait[g].timer

C20_Witness ==
  \E g \in Groups :
    /\ pc[g] = "wait" /\ wait[g].timer /\ log[g] = <<>>
    /\ calls[g] = <<"getTipAccounts", "getLatestBlockhash", "sendBundle",
                    "setTimeout", "onBundleResult">>
    /\ \E h \in Groups : failure[h] = "sendBundle" /\ ~wait[h].started

====
